---- MODULE Spec2Model ----
(* A model of SuiSource (src/src/sui.rs): the polling source that turns   *)
(* the Sui transaction feed into SuiEvents.  One caller drives the source *)
(* through init / next / close; every call is one atomic action.          *)
EXTENDS Integers, Sequences, FiniteSets, TLC

\* ---------------------------------------------------------------- bounds
\* largest max_transactions a source is constructed with
MaxTransactions == 2
\* number of client handles the Gateway hands out in one behaviour
MaxHandles == 2
\* number of earlier calls remembered in history
HistLen == 2

\* ------------------------------------------------------- Rust data types
\* Option<T>
None == <<>>
Some(v) == <<v>>
is_some(o) == Len(o) = 1
is_none(o) == Len(o) = 0
unwrap(o) == o[1]
unwrap_or(o, d) == IF is_some(o) THEN o[1] ELSE d

\* StreamResult<T>, with StreamError::Runtime the only variant used
Unit == "()"
Ok(v) == [tag |-> "Ok", value |-> v]
Runtime(m) == [variant |-> "Runtime", msg |-> m]
Err(e) == [tag |-> "Err", error |-> e]
is_ok(r) == r.tag = "Ok"
is_err(r) == r.tag = "Err"

\* Record::new(event): the record wraps the event
Record(e) == [data |-> e]

\* Duration::from_millis
from_millis(ms) == [secs |-> ms \div 1000, nanos |-> (ms % 1000) * 1000000]

\* -------------------------------------------------- the Gateway's values
\* a TransactionDigest is its bytes, abstracted to a small number; its
\* to_string is the Base58 text (injective), here a table
Digests == 1 .. 3
DigestText == <<"4vJ9JU1b", "8qbHbw2B", "CiDwVBFg">>
digest_to_string(d) == DigestText[d]

\* SuiAddress values and their canonical text
Addresses == 1 .. 2
AddressText == <<"0x00a1", "0x00b2">>
address_to_string(a) == AddressText[a]
\* AsRef<[u8]>: the bytes of an address; the bytes of address a are <<a>>
address_as_ref(a) == <<a>>
\* SuiAddress::try_from(&[u8]): Some(address) when the bytes are an address
address_try_from(bytes) ==
    IF \E a \in Addresses : address_as_ref(a) = bytes
    THEN Some(CHOOSE a \in Addresses : address_as_ref(a) = bytes)
    ELSE None

\* the transaction payload (SuiTransactionBlock): kind name, sender, data
PtPayload == [kind |-> "ProgrammableTransaction", sender |-> 1, debug |-> "V1(pt)"]
CcpPayload == [kind |-> "ConsensusCommitPrologue", sender |-> 2, debug |-> "V1(ccp)"]

\* the raw transactions the Gateway can return (SuiTransactionBlockResponse)
RawTxs ==
    { [digest |-> 1, timestamp_ms |-> Some(100), checkpoint |-> None,
       transaction |-> Some(PtPayload)],
      [digest |-> 1, timestamp_ms |-> Some(100), checkpoint |-> Some(7),
       transaction |-> Some(PtPayload)],
      [digest |-> 2, timestamp_ms |-> Some(200), checkpoint |-> Some(8),
       transaction |-> None],
      [digest |-> 3, timestamp_ms |-> None, checkpoint |-> Some(9),
       transaction |-> Some(CcpPayload)] }

\* a page of transactions, most recent first: at most limit items, no
\* digest twice
Batches(limit) ==
    { b \in UNION { [1 .. n -> RawTxs] : n \in 0 .. limit } :
        \A i, j \in 1 .. Len(b) : b[i].digest = b[j].digest => i = j }

\* errors of the Gateway (sui_sdk::error::Error), with their Display text
ErrorText == [rpc |-> "RPC error: connection refused",
              timeout |-> "request timed out"]
GatewayErrors == DOMAIN ErrorText
error_to_string(e) == ErrorText[e]

\* the endpoints and intervals a source is constructed with
MainnetUrl == "https://fullnode.mainnet.sui.io:443"
Urls == {MainnetUrl, "http://127.0.0.1:9000"}
IntervalsMs == {0, 1500}

\* effects a call has on the outside world, in the order they happen
Connect(url) == [kind |-> "connect", url |-> url, ms |-> from_millis(0), limit |-> 0]
Sleep(d) == [kind |-> "sleep", url |-> "", ms |-> d, limit |-> 0]
Fetch(n) == [kind |-> "fetch", url |-> "", ms |-> from_millis(0), limit |-> n]

VARIABLES
    rpc_url, interval, initialized, client,
    last_processed_digest, last_processed_checkpoint, max_transactions,
    handles,    \* client handles the Gateway has handed out so far
    op,         \* the call made last: "new", "init", "next" or "close"
    effects,    \* what that call did to the outside world, in order
    gateway,    \* what the Gateway answered to that call, None if not asked
    result,     \* what that call returned
    emitted,    \* the event emitted last by any call, None if none yet
    history     \* the calls made before that call, the last HistLen of them:
                \* each with its name, whether it returned Ok, and the digest
                \* of the first item of the batch it fetched, if it fetched one

fields == <<rpc_url, interval, initialized, client,
            last_processed_digest, last_processed_checkpoint, max_transactions>>
vars == <<rpc_url, interval, initialized, client,
          last_processed_digest, last_processed_checkpoint, max_transactions,
          handles, op, effects, gateway, result, emitted, history>>

\* the first item of the batch the call o was answered with, None when
\* the call was no next, fetched nothing or fetched an empty batch
polled(o, g) ==
    IF o = "next" /\ Len(g) = 1 /\ g[1].tag = "Ok" /\ Len(g[1].value) > 0
    THEN Some(g[1].value[1])
    ELSE None

\* the call that is now the last one, as history keeps it
entry ==
    [op |-> op,
     ok |-> result.tag = "Ok",
     first |-> IF Len(polled(op, gateway)) = 1
               THEN Some(polled(op, gateway)[1].digest) ELSE None]

remember(h, e) ==
    IF Len(h) < HistLen THEN Append(h, e) ELSE Append(Tail(h), e)

\* ------------------------------------------------------------ operations
new(url, interval_ms, max) ==
    /\ rpc_url = url
    /\ interval = from_millis(interval_ms)
    /\ initialized = FALSE
    /\ client = None
    /\ last_processed_digest = None
    /\ last_processed_checkpoint = None
    /\ max_transactions = max

new_with_mainnet(interval_ms, max) == new(MainnetUrl, interval_ms, max)

\* transaction_to_event, lines 98-104: the text of the sender bytes
sender_of_bytes(addr) ==
    LET parsed == address_try_from(addr)
    IN  IF is_some(parsed) THEN address_to_string(unwrap(parsed))
        ELSE "unknown"

\* the translation with the sender taken for the recipient of a transfer
\* and the empty text for a missing payload
transaction_to_event_infers(transaction) ==
    LET digest == digest_to_string(transaction.digest)
        timestamp == unwrap_or(transaction.timestamp_ms, 0)
        transaction_type ==
            IF is_some(transaction.transaction)
            THEN unwrap(transaction.transaction).kind
            ELSE ""
        sender ==
            IF is_some(transaction.transaction)
            THEN sender_of_bytes(
                     address_as_ref(unwrap(transaction.transaction).sender))
            ELSE "unknown"
        metadata ==
            IF is_some(transaction.transaction)
            THEN unwrap(transaction.transaction).debug
            ELSE "unknown"
    IN  [transaction_digest |-> digest,
         transaction_type |-> transaction_type,
         timestamp |-> timestamp,
         sender |-> sender,
         recipient |-> IF is_some(transaction.transaction)
                       THEN Some(sender) ELSE None,
         amount |-> None,
         metadata |-> metadata]

transaction_to_event(transaction) ==
    LET digest == digest_to_string(transaction.digest)
        timestamp == unwrap_or(transaction.timestamp_ms, 0)
        transaction_type ==
            IF is_some(transaction.transaction)
            THEN unwrap(transaction.transaction).kind
            ELSE "unknown"
        sender ==
            IF is_some(transaction.transaction)
            THEN sender_of_bytes(
                     address_as_ref(unwrap(transaction.transaction).sender))
            ELSE "unknown"
        metadata ==
            IF is_some(transaction.transaction)
            THEN unwrap(transaction.transaction).debug
            ELSE "unknown"
    IN  [transaction_digest |-> digest,
         transaction_type |-> transaction_type,
         timestamp |-> timestamp,
         sender |-> sender,
         recipient |-> None,
         amount |-> None,
         metadata |-> metadata]

is_initialized == initialized

Init ==
    /\ \E url \in Urls, ms \in IntervalsMs, max \in 1 .. MaxTransactions :
          \/ new(url, ms, max)
          \/ new_with_mainnet(ms, max)
    /\ handles = 0
    /\ op = "new"
    /\ effects = <<>>
    /\ gateway = None
    /\ result = Ok(Unit)
    /\ emitted = None
    /\ history = <<>>

\* what the Gateway can answer to a connection attempt: an error, or a
\* fresh client handle
ConnectAnswers ==
    { Err(e) : e \in GatewayErrors }
        \cup (IF handles < MaxHandles THEN {Ok(handles + 1)} ELSE {})

\* what the Gateway can answer to query_transaction_blocks with a limit
FetchAnswers(limit) ==
    { Err(e) : e \in GatewayErrors } \cup { Ok(b) : b \in Batches(limit) }

\* the early return left out: init connects again
already_initialized_never(i) == FALSE

\* the early return taken by every source that was initialized once
already_initialized_once(i) == i \/ handles > 0

\* init, line 135: the early return
already_initialized(i) == i

\* init, lines 143-146: the error of a failed connection
connect_error(e) == Runtime(error_to_string(e))

\* init with the flag set before the connection is awaited, so that a
\* failed connection leaves it set
init_marks_early ==
    /\ op' = "init"
    /\ history' = remember(history, entry)
    /\ UNCHANGED <<rpc_url, interval, max_transactions,
                   last_processed_digest, last_processed_checkpoint, emitted>>
    /\ IF already_initialized(initialized)
       THEN /\ result' = Ok(Unit)
            /\ effects' = <<>>
            /\ gateway' = None
            /\ UNCHANGED <<initialized, client, handles>>
       ELSE \E answer \in ConnectAnswers :
            /\ effects' = <<Connect(rpc_url)>>
            /\ gateway' = Some(answer)
            /\ initialized' = TRUE
            /\ IF is_err(answer)
               THEN /\ result' = Err(connect_error(answer.error))
                    /\ UNCHANGED <<client, handles>>
               ELSE /\ client' = Some(answer.value)
                    /\ handles' = answer.value
                    /\ result' = Ok(Unit)

\* init that builds the client a second time when the first build fails
init_retries ==
    /\ op' = "init"
    /\ history' = remember(history, entry)
    /\ UNCHANGED <<rpc_url, interval, max_transactions,
                   last_processed_digest, last_processed_checkpoint, emitted>>
    /\ IF already_initialized(initialized)
       THEN /\ result' = Ok(Unit)
            /\ effects' = <<>>
            /\ gateway' = None
            /\ UNCHANGED <<initialized, client, handles>>
       ELSE \E once \in ConnectAnswers, answer \in ConnectAnswers :
            /\ effects' = IF is_err(once) THEN <<Connect(rpc_url), Connect(rpc_url)>>
                          ELSE <<Connect(rpc_url)>>
            /\ is_ok(once) => answer = once
            /\ gateway' = Some(answer)
            /\ IF is_err(answer)
               THEN /\ result' = Err(connect_error(answer.error))
                    /\ UNCHANGED <<initialized, client, handles>>
               ELSE /\ client' = Some(answer.value)
                    /\ initialized' = TRUE
                    /\ handles' = answer.value
                    /\ result' = Ok(Unit)

init ==
    /\ op' = "init"
    /\ history' = remember(history, entry)
    /\ UNCHANGED <<rpc_url, interval, max_transactions,
                   last_processed_digest, last_processed_checkpoint, emitted>>
    /\ IF already_initialized(initialized)
       THEN /\ result' = Ok(Unit)
            /\ effects' = <<>>
            /\ gateway' = None
            /\ UNCHANGED <<initialized, client, handles>>
       ELSE \E answer \in ConnectAnswers :
            /\ effects' = <<Connect(rpc_url)>>
            /\ gateway' = Some(answer)
            /\ IF is_err(answer)
               THEN /\ result' = Err(connect_error(answer.error))
                    /\ UNCHANGED <<initialized, client, handles>>
               ELSE /\ client' = Some(answer.value)
                    /\ initialized' = TRUE
                    /\ handles' = answer.value
                    /\ result' = Ok(Unit)

\* the guard left out: next goes on to sleep
not_initialized_never(i, c) == FALSE

\* next, line 157: the guard
not_initialized(i, c) == ~i \/ is_none(c)

\* the error of a failed fetch with a fixed text in place of the cause
fetch_error_fixed(e) == Runtime("Failed to fetch transactions")

\* next, lines 188-191: the error of a failed fetch
fetch_error(e) == Runtime(error_to_string(e))

\* the test for an empty batch left out
is_empty_never(data) == FALSE

\* the fetch issued before the sleep
poll_effects_fetch_first(d, n) == <<Fetch(n), Sleep(d)>>

\* next, lines 164-187: the sleep for the interval, then the one fetch
poll_effects(d, n) == <<Sleep(d), Fetch(n)>>

\* next, line 194
is_empty(data) == Len(data) = 0

\* the oldest item of the batch taken in place of the most recent one
first_is_last(data) == IF Len(data) = 0 THEN None ELSE Some(data[Len(data)])

\* next, lines 200-202: slice::first
first(data) == IF Len(data) = 0 THEN None ELSE Some(data[1])

\* the comparison left out: nothing counts as processed
already_processed_never(last, latest) == FALSE

\* the comparison left out: anything counts as processed once a digest is stored
already_processed_any(last, latest) == is_some(last)

\* the comparison made with every digest the calls remembered have met
already_processed_seen(last, latest) ==
    \/ is_some(last) /\ unwrap(last) = latest
    \/ \E i \in 1 .. Len(history) :
          /\ Len(history[i].first) = 1
          /\ DigestText[history[i].first[1]] = latest

\* next, lines 207-212: the transaction was already processed
already_processed(last, latest) ==
    is_some(last) /\ unwrap(last) = latest

\* next that records the checkpoint of a transaction it has already
\* processed
next_refreshes_checkpoint ==
    /\ op' = "next"
    /\ history' = remember(history, entry)
    /\ UNCHANGED <<rpc_url, interval, max_transactions,
                   initialized, client, handles>>
    /\ IF not_initialized(initialized, client)
       THEN /\ result' = Err(Runtime("SuiSource not initialized"))
            /\ effects' = <<>>
            /\ gateway' = None
            /\ UNCHANGED <<last_processed_digest, last_processed_checkpoint, emitted>>
       ELSE \E answer \in FetchAnswers(max_transactions) :
            /\ effects' = poll_effects(interval, max_transactions)
            /\ gateway' = Some(answer)
            /\ IF is_err(answer)
               THEN /\ result' = Err(fetch_error(answer.error))
                    /\ UNCHANGED <<last_processed_digest, last_processed_checkpoint, emitted>>
               ELSE IF is_empty(answer.value)
               THEN /\ result' = Ok(None)
                    /\ UNCHANGED <<last_processed_digest, last_processed_checkpoint, emitted>>
               ELSE LET latest_transaction == unwrap(first(answer.value))
                        latest_digest == digest_to_string(latest_transaction.digest)
                    IN  IF already_processed(last_processed_digest, latest_digest)
                        THEN /\ result' = Ok(None)
                             /\ last_processed_checkpoint' = latest_transaction.checkpoint
                             /\ UNCHANGED <<last_processed_digest, emitted>>
                        ELSE /\ last_processed_digest' = Some(latest_digest)
                             /\ last_processed_checkpoint' = latest_transaction.checkpoint
                             /\ emitted' = Some(transaction_to_event(latest_transaction))
                             /\ result' = Ok(Some(Record(transaction_to_event(latest_transaction))))

next ==
    /\ op' = "next"
    /\ history' = remember(history, entry)
    /\ UNCHANGED <<rpc_url, interval, max_transactions,
                   initialized, client, handles>>
    /\ IF not_initialized(initialized, client)
       THEN /\ result' = Err(Runtime("SuiSource not initialized"))
            /\ effects' = <<>>
            /\ gateway' = None
            /\ UNCHANGED <<last_processed_digest, last_processed_checkpoint, emitted>>
       ELSE IF is_none(client)
       THEN /\ result' = Err(Runtime("SuiSource client not available"))
            /\ effects' = <<Sleep(interval)>>
            /\ gateway' = None
            /\ UNCHANGED <<last_processed_digest, last_processed_checkpoint, emitted>>
       ELSE \E answer \in FetchAnswers(max_transactions) :
            /\ effects' = poll_effects(interval, max_transactions)
            /\ gateway' = Some(answer)
            /\ IF is_err(answer)
               THEN /\ result' = Err(fetch_error(answer.error))
                    /\ UNCHANGED <<last_processed_digest, last_processed_checkpoint, emitted>>
               ELSE IF is_empty(answer.value)
               THEN /\ result' = Ok(None)
                    /\ UNCHANGED <<last_processed_digest, last_processed_checkpoint, emitted>>
               ELSE IF is_none(first(answer.value))
               THEN /\ result' = Err(Runtime("Failed to get first transaction"))
                    /\ UNCHANGED <<last_processed_digest, last_processed_checkpoint, emitted>>
               ELSE LET latest_transaction == unwrap(first(answer.value))
                        latest_digest == digest_to_string(latest_transaction.digest)
                    IN  IF already_processed(last_processed_digest, latest_digest)
                        THEN /\ result' = Ok(None)
                             /\ UNCHANGED <<last_processed_digest,
                                            last_processed_checkpoint, emitted>>
                        ELSE /\ last_processed_digest' = Some(latest_digest)
                             /\ last_processed_checkpoint' = latest_transaction.checkpoint
                             /\ emitted' = Some(transaction_to_event(latest_transaction))
                             /\ result' = Ok(Some(Record(transaction_to_event(latest_transaction))))

\* close as the gating property of the specification has it: an error
\* unless the source is initialized
close_gated ==
    /\ op' = "close"
    /\ history' = remember(history, entry)
    /\ initialized' = FALSE
    /\ client' = None
    /\ result' = IF initialized THEN Ok(Unit)
                 ELSE Err(Runtime("SuiSource not initialized"))
    /\ effects' = <<>>
    /\ gateway' = None
    /\ UNCHANGED <<rpc_url, interval, max_transactions, handles,
                   last_processed_digest, last_processed_checkpoint, emitted>>

\* close that releases the client and leaves the flag as it is
close_keeps_flag ==
    /\ op' = "close"
    /\ history' = remember(history, entry)
    /\ client' = None
    /\ result' = Ok(Unit)
    /\ effects' = <<>>
    /\ gateway' = None
    /\ UNCHANGED <<rpc_url, interval, max_transactions, handles, initialized,
                   last_processed_digest, last_processed_checkpoint, emitted>>

\* close that also clears the dedup tracking
close_clears_tracking ==
    /\ op' = "close"
    /\ history' = remember(history, entry)
    /\ initialized' = FALSE
    /\ client' = None
    /\ last_processed_digest' = None
    /\ last_processed_checkpoint' = None
    /\ result' = Ok(Unit)
    /\ effects' = <<>>
    /\ gateway' = None
    /\ UNCHANGED <<rpc_url, interval, max_transactions, handles, emitted>>

\* close that resets the flag and keeps the client
close_keeps_client ==
    /\ op' = "close"
    /\ history' = remember(history, entry)
    /\ initialized' = FALSE
    /\ result' = Ok(Unit)
    /\ effects' = <<>>
    /\ gateway' = None
    /\ UNCHANGED <<rpc_url, interval, max_transactions, handles, client,
                   last_processed_digest, last_processed_checkpoint, emitted>>

close ==
    /\ op' = "close"
    /\ history' = remember(history, entry)
    /\ initialized' = FALSE
    /\ client' = None
    /\ result' = Ok(Unit)
    /\ effects' = <<>>
    /\ gateway' = None
    /\ UNCHANGED <<rpc_url, interval, max_transactions, handles,
                   last_processed_digest, last_processed_checkpoint, emitted>>

Next == init \/ next \/ close

Spec == Init /\ [][Next]_vars

\* ------------------------------------------- the translation on its own
\* the raw transactions transaction_to_event is applied to
TranslateInputs ==
    [digest : Digests,
     timestamp_ms : {None, Some(0), Some(100), Some(200)},
     checkpoint : {None, Some(7)},
     transaction : {None, Some(PtPayload), Some(CcpPayload)}]

\* byte strings the sender closure is applied to; those of one byte are
\* the bytes of an address
SenderBytes == UNION { [1 .. n -> Addresses] : n \in 0 .. 2 }

\* a new source and one raw transaction, held in gateway as a batch of one
TranslateInit ==
    /\ \E ms \in IntervalsMs : new_with_mainnet(ms, 1)
    /\ handles = 0
    /\ op = "new"
    /\ effects = <<>>
    /\ \E tx \in TranslateInputs : gateway = Some(Ok(<<tx>>))
    /\ result = Ok(Unit)
    /\ emitted = None
    /\ history = <<>>

\* transaction_to_event applied to that transaction; &self is not changed
translate ==
    /\ op = "new"
    /\ op' = "transaction_to_event"
    /\ result' = Ok(Some(Record(transaction_to_event(gateway[1].value[1]))))
    /\ emitted' = Some(transaction_to_event(gateway[1].value[1]))
    /\ UNCHANGED <<rpc_url, interval, initialized, client,
                   last_processed_digest, last_processed_checkpoint,
                   max_transactions, handles, effects, gateway, history>>

TranslateNext == translate

TranslateSpec == TranslateInit /\ [][TranslateNext]_vars

\* ------------------------------------------------------------ properties
is_runtime_error(r) == r.tag = "Err" /\ r.error.variant = "Runtime"
no_network(fx) == \A i \in 1 .. Len(fx) : fx[i].kind \notin {"connect", "fetch"}
no_sleep(fx) == \A i \in 1 .. Len(fx) : fx[i].kind # "sleep"
last_call == history[Len(history)]

\* C1: a next call on a source that is not initialized (new, after a failed
\* init, after close) returns a Runtime error, neither sleeps nor fetches,
\* and changes no field of the source.
C1_NextNotInitialized ==
    [][ (op' = "next" /\ (~initialized \/ client = None)) =>
            /\ is_runtime_error(result')
            /\ no_sleep(effects') /\ no_network(effects') /\ gateway' = None
            /\ UNCHANGED fields ]_vars

\* next was refused on a source that had been initialized and then closed
C1_Witness ==
    /\ op = "next" /\ ~initialized /\ is_runtime_error(result)
    /\ handles > 0 /\ Len(history) > 0 /\ last_call.op = "close"

\* C2 as stated: close on a source that was never successfully initialized
\* returns a Runtime error and attempts no network access.
C2_CloseBeforeInitFails ==
    (op = "close" /\ handles = 0) =>
        (is_runtime_error(result) /\ no_network(effects) /\ gateway = None)

\* C2 as amended: close on a source that was never successfully
\* initialized returns success and attempts no network access.
C2_CloseBeforeInitSucceeds ==
    (op = "close" /\ handles = 0) =>
        (result = Ok(Unit) /\ no_network(effects) /\ gateway = None)

\* close was called on a source no init of which had succeeded
C2_Witness ==
    op = "close" /\ handles = 0 /\ ~initialized /\ result.tag = "Ok"

\* C3: init on an initialized source returns success, attempts no
\* connection, keeps the client handle and changes no other field.
C3_InitAgainIsNoOp ==
    [][ (op' = "init" /\ initialized) =>
            /\ result' = Ok(Unit)
            /\ no_network(effects') /\ gateway' = None
            /\ client' = client /\ handles' = handles
            /\ UNCHANGED fields ]_vars

\* init returned from its early return: initialized, and nothing attempted
C3_Witness ==
    /\ op = "init" /\ initialized /\ is_some(client)
    /\ effects = <<>> /\ result.tag = "Ok"

\* the batch the last call fetched, when it was a next whose fetch succeeded
fetched_batch(o, g) == o = "next" /\ Len(g) = 1 /\ g[1].tag = "Ok"
returned_none(r) == r.tag = "Ok" /\ r.value = None
returned_some(r) == r.tag = "Ok" /\ Len(r.value) = 1

\* C4: of two consecutive next calls on an initialized source that both
\* fetch a non-empty batch with the same first digest, the second returns
\* None, whatever else the two batches hold.
C4_SameFirstTwice ==
    ( /\ op = "next" /\ is_some(polled(op, gateway))
      /\ Len(history) > 0 /\ last_call.op = "next"
      /\ last_call.first = Some(unwrap(polled(op, gateway)).digest) )
    => returned_none(result)

\* the second of two such calls returned None on a batch of two items
C4_Witness ==
    /\ op = "next" /\ is_some(polled(op, gateway))
    /\ Len(history) > 0 /\ last_call.op = "next"
    /\ last_call.first = Some(unwrap(polled(op, gateway)).digest)
    /\ Len(gateway[1].value) = 2
    /\ returned_none(result)

\* C5: a next call that fetches a non-empty batch whose first digest is not
\* the stored last_processed_digest (nothing stored included) returns
\* Some(event) with that digest, and stores the digest and the item's
\* checkpoint.
C5_NewFirstIsEmitted ==
    [][ ( /\ op' = "next" /\ is_some(polled(op', gateway'))
          /\ \/ last_processed_digest = None
             \/ unwrap(last_processed_digest)
                    # DigestText[unwrap(polled(op', gateway')).digest] )
        => /\ returned_some(result')
           /\ result'.value[1].data.transaction_digest
                  = DigestText[unwrap(polled(op', gateway')).digest]
           /\ last_processed_digest'
                  = Some(DigestText[unwrap(polled(op', gateway')).digest])
           /\ last_processed_checkpoint'
                  = unwrap(polled(op', gateway')).checkpoint ]_vars

\* an event was emitted by a call that followed the emission of another
\* digest, and its digest and checkpoint are the stored ones
C5_Witness ==
    /\ op = "next" /\ returned_some(result)
    /\ Len(history) > 0 /\ last_call.op = "next" /\ last_call.ok
    /\ is_some(last_call.first)
    /\ last_call.first # Some(unwrap(polled(op, gateway)).digest)
    /\ last_processed_digest = Some(result.value[1].data.transaction_digest)

\* C6: a next call whose fetch succeeds with an empty batch returns None,
\* not an error, whatever the dedup tracking holds.
C6_EmptyBatchIsNone ==
    (fetched_batch(op, gateway) /\ Len(gateway[1].value) = 0)
    => returned_none(result)

\* an empty batch was fetched while a digest was stored
C6_Witness ==
    /\ fetched_batch(op, gateway) /\ Len(gateway[1].value) = 0
    /\ is_some(last_processed_digest) /\ returned_none(result)

\* the Gateway answered the last call with an error
gateway_failed(g) == Len(g) = 1 /\ g[1].tag = "Err"
attempted(fx, k) == \E i \in 1 .. Len(fx) : fx[i].kind = k

\* C7: init on an uninitialized source whose connection fails returns a
\* Runtime error and leaves the source uninitialized with no client; an
\* init call made right after it attempts the connection again.
C7_FailedInit ==
    [][ /\ (op' = "init" /\ ~initialized /\ gateway_failed(gateway'))
            => /\ is_runtime_error(result')
               /\ ~initialized' /\ client' = None
        /\ (op = "init" /\ result.tag = "Err" /\ op' = "init")
            => attempted(effects', "connect") ]_vars

\* an init that connected right after an init that had failed
C7_Witness ==
    /\ op = "init" /\ result.tag = "Ok" /\ initialized /\ is_some(client)
    /\ attempted(effects, "connect")
    /\ Len(history) > 0 /\ last_call.op = "init" /\ ~last_call.ok

\* C8: a next call whose fetch fails returns a Runtime error with the
\* message of the underlying error, emits nothing and leaves the source
\* initialized; a next call made right after it fetches again.
C8_FailedFetch ==
    [][ /\ (op' = "next" /\ gateway_failed(gateway'))
            => /\ is_runtime_error(result')
               /\ result'.error.msg = ErrorText[gateway'[1].error]
               /\ emitted' = emitted
               /\ initialized' /\ is_some(client') /\ client' = client
        /\ (op = "next" /\ gateway_failed(gateway) /\ op' = "next")
            => attempted(effects', "fetch") ]_vars

\* a next that emitted an event right after a next whose fetch had failed
C8_Witness ==
    /\ op = "next" /\ returned_some(result)
    /\ Len(history) > 0 /\ last_call.op = "next" /\ ~last_call.ok

\* C9: close returns success and leaves initialized false and no client
\* held, from every state; a close right after a close changes no field.
C9_CloseIdempotent ==
    [][ op' = "close" =>
            /\ result' = Ok(Unit)
            /\ ~initialized' /\ client' = None
            /\ (op = "close" => UNCHANGED fields) ]_vars

\* a close right after the close of a source that had been initialized
C9_Witness ==
    /\ op = "close" /\ ~initialized /\ client = None /\ handles > 0
    /\ Len(history) > 0 /\ last_call.op = "close"

\* C10: close leaves last_processed_digest and last_processed_checkpoint
\* as they are; after close and a successful init, a next call whose batch
\* starts with the digest emitted last before the close returns None.
C10_DedupSurvivesClose ==
    [][ /\ op' = "close"
            => /\ last_processed_digest' = last_processed_digest
               /\ last_processed_checkpoint' = last_processed_checkpoint
        /\ ( /\ op = "init" /\ result.tag = "Ok" /\ attempted(effects, "connect")
              /\ Len(history) > 0 /\ last_call.op = "close"
              /\ is_some(emitted)
              /\ op' = "next" /\ is_some(polled(op', gateway'))
              /\ DigestText[unwrap(polled(op', gateway')).digest]
                     = unwrap(emitted).transaction_digest )
            => returned_none(result') ]_vars

\* a next after close and a successful init returned None on the digest
\* emitted before the close
C10_Witness ==
    /\ op = "next" /\ returned_none(result) /\ is_some(polled(op, gateway))
    /\ Len(history) > 1
    /\ history[Len(history) - 1].op = "close"
    /\ last_call.op = "init" /\ last_call.ok
    /\ is_some(emitted)
    /\ DigestText[unwrap(polled(op, gateway)).digest]
           = unwrap(emitted).transaction_digest
\* C11 as stated: close resets the source to uninitialized and clears the
\* client and the tracking (last_processed_digest, last_processed_checkpoint).
C11_CloseClearsTracking ==
    op = "close" =>
        /\ ~initialized /\ client = None
        /\ last_processed_digest = None /\ last_processed_checkpoint = None

\* C11 as amended: close resets the source to uninitialized and clears the
\* client; the tracking is kept as the last emission left it.
C11_CloseClearsClientOnly ==
    [][ op' = "close" =>
            /\ ~initialized' /\ client' = None
            /\ last_processed_digest' = last_processed_digest
            /\ last_processed_checkpoint' = last_processed_checkpoint
            /\ emitted' = emitted ]_vars

\* a source was closed after it had emitted an event
C11_Witness ==
    /\ op = "close" /\ ~initialized /\ client = None
    /\ is_some(emitted) /\ is_some(last_processed_digest)
    /\ is_some(last_processed_checkpoint)

\* the source was initialized once and is not now
Closed == ~initialized /\ handles > 0

C13_OnlyFirstItem ==
    [][ op' = "next" =>
          /\ returned_some(result')
                => /\ fetched_batch(op', gateway') /\ Len(gateway'[1].value) > 0
                   /\ result'.value[1].data.transaction_digest
                          = DigestText[gateway'[1].value[1].digest]
                   /\ result'.value[1].data.timestamp
                          = (IF Len(gateway'[1].value[1].timestamp_ms) = 1
                             THEN gateway'[1].value[1].timestamp_ms[1] ELSE 0)
                   /\ emitted' = Some(result'.value[1].data)
          /\ ~returned_some(result') => emitted' = emitted
          /\ ( /\ fetched_batch(op, gateway) /\ Len(gateway[1].value) > 1
               /\ fetched_batch(op', gateway') /\ Len(gateway'[1].value) = 0 )
                => returned_none(result') ]_vars

\* an event was emitted from a batch of two items
C13_Witness ==
    /\ op = "next" /\ returned_some(result)
    /\ Len(gateway[1].value) = 2
    /\ result.value[1].data.transaction_digest
           = DigestText[gateway[1].value[1].digest]
    /\ gateway[1].value[2].digest # gateway[1].value[1].digest

\* C14: a next call on an initialized source sleeps for the configured
\* interval, once, and issues the fetch after the sleep, whatever the fetch
\* then returns (an error, an empty batch, a duplicate, a new item).
C14_SleepBeforeFetch ==
    [][ (op' = "next" /\ initialized /\ client # None) =>
          /\ Len(effects') = 2
          /\ effects'[1].kind = "sleep" /\ effects'[1].ms = interval
          /\ effects'[2].kind = "fetch"
          /\ Len(gateway') = 1 ]_vars

\* a next call slept for a non-zero interval and its fetch then failed
C14_Witness ==
    /\ op = "next" /\ gateway_failed(gateway)
    /\ Len(effects) = 2 /\ effects[1].kind = "sleep"
    /\ effects[1].ms = interval /\ interval.secs > 0
times(fx, k) == Cardinality({ i \in 1 .. Len(fx) : fx[i].kind = k })

\* C15: a call makes at most one connection attempt and at most one fetch
\* (init no fetch, next no connection, close neither), and when the
\* Gateway answers with an error the same call returns it as an error.
C15_NoRetry ==
    /\ times(effects, "connect") <= (IF op = "init" THEN 1 ELSE 0)
    /\ times(effects, "fetch") <= (IF op = "next" THEN 1 ELSE 0)
    /\ gateway_failed(gateway) =>
          /\ is_runtime_error(result)
          /\ result.error.msg = ErrorText[gateway[1].error]

\* an init whose one connection attempt failed returned the error
C15_Witness ==
    /\ op = "init" /\ gateway_failed(gateway) /\ is_runtime_error(result)
    /\ times(effects, "connect") = 1 /\ ~initialized

\* C16: last_processed_digest is None while no event has been emitted and
\* is the transaction_digest of the event emitted last otherwise, in every
\* reachable state.
C16_DigestOfLastEmitted ==
    /\ is_none(emitted) => last_processed_digest = None
    /\ is_some(emitted) =>
          last_processed_digest = Some(unwrap(emitted).transaction_digest)

\* the digest emitted before a close is still the stored one after the
\* init that followed the close
C16_Witness ==
    /\ op = "init" /\ initialized /\ handles > 1 /\ is_some(emitted)
    /\ Len(history) > 0 /\ last_call.op = "close"
    /\ last_processed_digest = Some(unwrap(emitted).transaction_digest)
\* C17: transaction_to_event returns, for every raw transaction, an event
\* with the text of the record's digest, the timestamp or 0 when it is
\* absent, the kind, sender and payload text or "unknown" for each when the
\* payload is absent, and recipient and amount unset; sender bytes that do
\* not parse give the sender "unknown".
C17_TranslationTotal ==
    /\ op = "transaction_to_event" =>
          LET tx == gateway[1].value[1]
              ev == result.value[1].data
          IN  /\ ev.transaction_digest = DigestText[tx.digest]
              /\ ev.timestamp = (IF Len(tx.timestamp_ms) = 1
                                 THEN tx.timestamp_ms[1] ELSE 0)
              /\ Len(tx.transaction) = 0 =>
                    /\ ev.transaction_type = "unknown"
                    /\ ev.sender = "unknown"
                    /\ ev.metadata = "unknown"
              /\ Len(tx.transaction) = 1 =>
                    /\ ev.transaction_type = tx.transaction[1].kind
                    /\ ev.sender = AddressText[tx.transaction[1].sender]
                    /\ ev.metadata = tx.transaction[1].debug
              /\ ev.recipient = None /\ ev.amount = None
    /\ \A bytes \in SenderBytes :
          Len(bytes) # 1 => sender_of_bytes(bytes) = "unknown"

\* a transaction with neither timestamp nor payload was translated
C17_Witness ==
    /\ op = "transaction_to_event"
    /\ gateway[1].value[1].timestamp_ms = None
    /\ gateway[1].value[1].transaction = None
    /\ result.value[1].data.timestamp = 0
    /\ result.value[1].data.sender = "unknown"
\* C18: the source remembers one digest only: when three consecutive next
\* calls meet the first digests A, B, A with A # B, the third call emits
\* the event of A again; a call returns None on a non-empty batch only when
\* its first digest is that of the event emitted last.
C18_ConsecutiveOnly ==
    [][ op' = "next" =>
          /\ ( /\ op = "next" /\ Len(polled(op, gateway)) = 1
               /\ Len(history) > 0 /\ last_call.op = "next"
               /\ Len(last_call.first) = 1
               /\ last_call.first[1] # polled(op, gateway)[1].digest
               /\ Len(polled(op', gateway')) = 1
               /\ polled(op', gateway')[1].digest = last_call.first[1] )
                => /\ returned_some(result')
                   /\ result'.value[1].data.transaction_digest
                          = DigestText[last_call.first[1]]
          /\ (Len(polled(op', gateway')) = 1 /\ returned_none(result'))
                => /\ Len(emitted) = 1
                   /\ emitted[1].transaction_digest
                          = DigestText[polled(op', gateway')[1].digest] ]_vars

\* the third of three calls that met A, B, A emitted A
C18_Witness ==
    /\ op = "next" /\ returned_some(result) /\ Len(history) > 1
    /\ history[Len(history) - 1].op = "next" /\ last_call.op = "next"
    /\ history[Len(history) - 1].first = Some(polled(op, gateway)[1].digest)
    /\ Len(last_call.first) = 1
    /\ last_call.first # history[Len(history) - 1].first

\* C19: initialized is true exactly when a client is held, and no call
\* returns the errors "SuiSource client not available" and "Failed to get
\* first transaction".
C19_FlagIffClient ==
    /\ initialized <=> client # None
    /\ result.tag = "Err" =>
          result.error.msg \notin {"SuiSource client not available",
                                   "Failed to get first transaction"}

\* a source initialized for the second time holds the second client
C19_Witness ==
    /\ op = "next" /\ initialized /\ client = Some(handles) /\ handles > 1

\* C20 as stated: a next call that returns None or an error leaves
\* last_processed_digest and last_processed_checkpoint as they are; the two
\* change only in a next call that returns Some(event), and one changes
\* exactly when the other does.
C20_TrackingChangesTogether ==
    [][ /\ (op' = "next" /\ ~returned_some(result'))
            => /\ last_processed_digest' = last_processed_digest
               /\ last_processed_checkpoint' = last_processed_checkpoint
        /\ ( \/ last_processed_digest' # last_processed_digest
             \/ last_processed_checkpoint' # last_processed_checkpoint )
            => (op' = "next" /\ returned_some(result'))
        /\ (last_processed_digest' # last_processed_digest)
            <=> (last_processed_checkpoint' # last_processed_checkpoint) ]_vars

\* C20 as amended: a next call that returns None or an error leaves the
\* two fields as they are; they change only in a next call that returns
\* Some(event), which sets both from the item it emits: the digest always
\* changes then, the checkpoint only when the item's checkpoint is another.
C20_TrackingSetTogether ==
    [][ /\ (op' = "next" /\ ~returned_some(result'))
            => /\ last_processed_digest' = last_processed_digest
               /\ last_processed_checkpoint' = last_processed_checkpoint
        /\ ( \/ last_processed_digest' # last_processed_digest
             \/ last_processed_checkpoint' # last_processed_checkpoint )
            => (op' = "next" /\ returned_some(result'))
        /\ (op' = "next" /\ returned_some(result'))
            => /\ last_processed_digest' # last_processed_digest
               /\ last_processed_digest'
                      = Some(DigestText[polled(op', gateway')[1].digest])
               /\ last_processed_checkpoint'
                      = polled(op', gateway')[1].checkpoint ]_vars

\* a duplicate was met with another checkpoint than the stored one, and
\* the stored one was kept
C20_Witness ==
    /\ op = "next" /\ returned_none(result) /\ Len(polled(op, gateway)) = 1
    /\ polled(op, gateway)[1].checkpoint # last_processed_checkpoint
====
